---- MODULE Spec2Model ----
(***************************************************************************)
(* Model of the schedule agent's add_schedule, update_schedule and         *)
(* create_event_folder tools (schedule-agent/src/tools) together with the  *)
(* two backends they reconcile: the Notion schedule database               *)
(* (notion-client) and Google Calendar (gcal-client), and the Dropbox      *)
(* folder mirror (dropbox-service).                                        *)
(*                                                                         *)
(* Strings are modelled as sequences of one-character strings, dates as    *)
(* <<year, month, day>> ("yyyy-mm-dd") or <<year, month, day, hour>> (a    *)
(* date string carrying a time component, which is not "yyyy-mm-dd").      *)
(***************************************************************************)
EXTENDS Integers, Sequences, FiniteSets, TLC

\* ------------------------------------------------------------------ bounds

\* The number of tool calls one behaviour makes.
MaxCalls == 2

\* The number of createEventFolder calls one behaviour makes.
MaxFolderCalls == 2

\* The number of update_schedule calls one behaviour makes.
MaxUpdateCalls == 2

\* ------------------------------------------------------------- the inputs

Clients == {1, 2}

NameSet == { <<"a">>, <<"A">>, <<"a", "b">> }

NoDate == << >>

DateSet == { <<2026, 3, 10>>, <<2026, 3, 11>>, <<2026, 3, 10, 9>> }

\* date_end accompanies only the first date: the two-day event 03-10 .. 03-11.
DateEndSet(dateStart) ==
  IF dateStart = <<2026, 3, 10>> THEN {NoDate, <<2026, 3, 11>>} ELSE {NoDate}

AuthStates == {"ok", "nocreds", "invalid", "notoken"}

NotionErrors == {"Notion request failed with 502"}

GCalErrors == {"invalid_grant"}

\* ----------------------------------------------------------------- strings

ToLowerChar(ch) ==
  CASE ch = "A" -> "a"
    [] ch = "B" -> "b"
    [] OTHER -> ch

\* String.prototype.toLowerCase
ToLowerCase(s) == [i \in 1..Len(s) |-> ToLowerChar(s[i])]

\* String.prototype.includes / a "contains" text filter
Contains(s, sub) ==
  \E i \in 0..(Len(s) - Len(sub)) :
     \A j \in 1..Len(sub) : s[i + j] = sub[j]

\* ------------------------------------------------------------------- dates

\* /^\d{4}-\d{2}-\d{2}$/ : the date string has no time component
IsYmd(date) == Len(date) = 3

NaNDate == <<0, 0, 0>>

IsLeap(y) == (y % 4 = 0 /\ y % 100 # 0) \/ y % 400 = 0

DaysInMonth(y, m) ==
  IF m = 2 THEN (IF IsLeap(y) THEN 29 ELSE 28)
  ELSE IF m \in {4, 6, 9, 11} THEN 30 ELSE 31

\* new Date(year, monthIndex, day): a day past the month's end rolls over
RECURSIVE NormalizeDate(_, _, _)
NormalizeDate(y, m, d) ==
  IF m > 12 THEN NormalizeDate(y + 1, m - 12, d)
  ELSE IF d > DaysInMonth(y, m) THEN NormalizeDate(y, m + 1, d - DaysInMonth(y, m))
  ELSE <<y, m, d>>

\* nextDay adding one to the day without building a Date.
nextDayWithoutRollover(dateStr) ==
  IF IsYmd(dateStr) THEN <<dateStr[1], dateStr[2], dateStr[3] + 1>> ELSE NaNDate

\* Number("10T09:00") is NaN, and a Date built from NaN formats as NaN-NaN-NaN
nextDay(dateStr) ==
  IF IsYmd(dateStr)
  THEN NormalizeDate(dateStr[1], dateStr[2], dateStr[3] + 1)
  ELSE NaNDate

DateLT(a, b) ==
  \/ a[1] < b[1]
  \/ a[1] = b[1] /\ a[2] < b[2]
  \/ a[1] = b[1] /\ a[2] = b[2] /\ a[3] < b[3]

\* ----------------------------------------------------- the Notion database

NoUrl == << >>

PageUrl(id) == <<"https://www.notion.so/", id>>

\* NotionScheduleClient.buildProperties(input, requireNameAndDate = true):
\* the Name title and the Date {start, end: date_end ?? null} of the new page.
buildProperties(input) ==
  [Name |-> input.name,
   Date |-> [start |-> input.date_start, end |-> input.date_end]]

\* NotionScheduleClient.addSchedule's checks before the request:
\* "" when the input passes, else the message of the Error thrown.
addScheduleError(input) ==
  IF input.name = << >> THEN "name is required"
  ELSE IF input.date_start = NoDate THEN "date_start is required"
  ELSE ""

\* POST /pages: the page the database stores, with the id and url it assigns.
NewPage(pages, input) ==
  [id |-> Len(pages) + 1,
   url |-> PageUrl(Len(pages) + 1),
   properties |-> buildProperties(input)]

\* What addSchedule returns for the stored page.
SchedulePageDetails(page) ==
  [page_id |-> page.id, url |-> page.url, properties |-> page.properties]

NoDuplicate == [found |-> FALSE, page_id |-> 0, url |-> NoUrl,
                name |-> << >>, date_start |-> NoDate]

\* The pages a database query with the filter
\* {Name: title contains name} and {Date: equals dateStart} returns, in order.
QueryDuplicates(pages, name, dateStart) ==
  SelectSeq(pages, LAMBDA pg : /\ Contains(pg.properties.Name, name)
                               /\ pg.properties.Date.start = dateStart)

\* NotionScheduleClient.findDuplicate(name, dateStart): the first page the
\* query returns, as {page_id, url, name, date_start}, or null.
findDuplicate(pages, name, dateStart) ==
  LET hits == QueryDuplicates(pages, name, dateStart)
  IN IF hits = << >> THEN NoDuplicate
     ELSE [found |-> TRUE, page_id |-> hits[1].id, url |-> hits[1].url,
           name |-> hits[1].properties.Name,
           date_start |-> hits[1].properties.Date.start]

\* ------------------------------------------------------- Google Calendar

\* maxResults of the events.list request
MaxResults == 5

EventUrl(id) == <<"https://www.google.com/calendar/event?eid=", id>>

\* getAuthorizedClient(): "client", "null" (no credentials file or no stored
\* token) or "throws" (credentials.json without the installed key)
getAuthorizedClient(auth) ==
  CASE auth = "ok" -> "client"
    [] auth = "invalid" -> "throws"
    [] OTHER -> "null"

InvalidCredentialsMessage == "Invalid credentials.json: missing installed key"

\* The request body createGoogleCalendarEvent builds: an all-day event whose
\* end date is the day after date_end, or after date_start without one.
EventBody(input) ==
  [summary |-> input.name,
   start |-> input.dateStart,
   end |-> IF input.dateEnd # NoDate THEN nextDay(input.dateEnd)
           ELSE nextDay(input.dateStart)]

\* The input the add handler hands to createGoogleCalendarEvent.
GCalEventInput(params) ==
  [name |-> params.name, dateStart |-> params.date_start,
   dateEnd |-> params.date_end]

\* events.insert accepts only "yyyy-mm-dd" all-day dates with start < end.
InsertAccepts(body) ==
  /\ IsYmd(body.start)
  /\ body.end # NaNDate
  /\ DateLT(body.start, body.end)

\* events.insert: the event the calendar stores, with its id and htmlLink.
NewEvent(events, body) ==
  [id |-> Len(events) + 1,
   htmlLink |-> EventUrl(Len(events) + 1),
   summary |-> body.summary, start |-> body.start, end |-> body.end]

GCalCreated(event) ==
  [success |-> TRUE, message |-> <<"Event created in Google Calendar">>,
   eventId |-> event.id, eventUrl |-> event.htmlLink]

GCalNotConfigured ==
  [success |-> FALSE,
   message |-> <<"Google Calendar not configured. Run: node build/auth-setup.js">>,
   eventId |-> 0, eventUrl |-> NoUrl]

\* The events that overlap the one-day window of dateStart and whose text
\* holds the query, ignoring case, in the calendar's order.
EventsInWindow(events, name, dateStart) ==
  SelectSeq(events,
    LAMBDA e : /\ DateLT(e.start, nextDay(dateStart))
               /\ DateLT(dateStart, e.end)
               /\ Contains(ToLowerCase(e.summary), ToLowerCase(name)))

\* The subsequence of s at the indices in keep.
Pick(s, keep) == SelectSeq(s, LAMBDA e : \E i \in keep : s[i] = e)

\* events.list with timeMin = dateStart 00:00 +09:00, timeMax = the end of
\* that day, q = name and maxResults: the replies the calendar can give. The
\* request states no orderBy, so of more than maxResults matching events any
\* maxResults may come back.
ListEvents(events, name, dateStart) ==
  LET matching == EventsInWindow(events, name, dateStart)
  IN IF Len(matching) <= MaxResults THEN {matching}
     ELSE {Pick(matching, keep) :
             keep \in {k \in SUBSET (1..Len(matching)) : Cardinality(k) = MaxResults}}

GCalAbsent == [exists |-> FALSE, eventId |-> 0, eventUrl |-> NoUrl]

\* The post-filter comparing with includes() instead of ===.
MatchEventBySubstring(items, name) ==
  LET loose == SelectSeq(items,
                 LAMBDA e : Contains(ToLowerCase(e.summary), ToLowerCase(name)))
  IN IF loose = << >> THEN GCalAbsent
     ELSE [exists |-> TRUE, eventId |-> loose[1].id,
           eventUrl |-> loose[1].htmlLink]

\* findGoogleCalendarEvent's post-filter: the first listed event whose summary
\* equals name ignoring case.
MatchEvent(items, name) ==
  LET exact == SelectSeq(items,
                 LAMBDA e : ToLowerCase(e.summary) = ToLowerCase(name))
  IN IF exact = << >> THEN GCalAbsent
     ELSE [exists |-> TRUE, eventId |-> exact[1].id,
           eventUrl |-> exact[1].htmlLink]

\* findGoogleCalendarEvent(name, dateStart) with an authorized client and a
\* request that succeeds: the results it can return, one per reply.
findGoogleCalendarEvent(events, name, dateStart) ==
  {MatchEvent(items, name) : items \in ListEvents(events, name, dateStart)}

\* ------------------------------------------------------ the folder mirror

TrimStart(s) ==
  LET skip == {i \in 1..Len(s) : \A j \in 1..i : s[j] = " "}
  IN SubSeq(s, Cardinality(skip) + 1, Len(s))

TrimEnd(s) ==
  LET skip == {i \in 1..Len(s) : \A j \in i..Len(s) : s[j] = " "}
  IN SubSeq(s, 1, Len(s) - Cardinality(skip))

\* sanitizeName that only trims.
sanitizeNameWithoutReplace(name) == TrimEnd(TrimStart(name))

\* DropboxService.sanitizeName: name.trim().replace(/[/:]/gu, "-")
sanitizeName(name) ==
  LET t == TrimEnd(TrimStart(name))
  IN [i \in 1..Len(t) |-> IF t[i] \in {"/", ":"} THEN "-" ELSE t[i]]

\* DropboxService.validateDate: TRUE when it throws
validateDateThrows(date) == ~IsYmd(date)

DateFormatMessage == "date must be in yyyy-mm-dd format"

\* join(basePath, year, `${date} ${safeName}`), below the base path
FolderPath(name, date) == <<date[1], date, sanitizeName(name)>>

NoFolder == [path |-> << >>, existed |-> FALSE]

\* DropboxService.createEventFolder's result for a date that passes
\* validateDate; mkdirSync on the base path is taken to succeed.
createEventFolder(folders, name, date) ==
  [path |-> FolderPath(name, date),
   existed |-> FolderPath(name, date) \in folders]

\* ------------------------------- the folder mirror, on the strings themselves

Digits == {"0", "1", "2", "3", "4", "5", "6", "7", "8", "9"}

\* The pattern without its anchors, /\d{4}-\d{2}-\d{2}/u.test(date)
DatePatternUnanchored(date) ==
  \E k \in 0..(Len(date) - 10) :
    /\ \A i \in {1, 2, 3, 4, 6, 7, 9, 10} : date[k + i] \in Digits
    /\ date[k + 5] = "-"
    /\ date[k + 8] = "-"

\* /^\d{4}-\d{2}-\d{2}$/u.test(date)
DatePattern(date) ==
  /\ Len(date) = 10
  /\ \A i \in {1, 2, 3, 4, 6, 7, 9, 10} : date[i] \in Digits
  /\ date[5] = "-"
  /\ date[8] = "-"

\* String.prototype.slice(from, to) with 0 <= from <= to
Slice(s, from, to) ==
  SubSeq(s, from + 1, IF to < Len(s) THEN to ELSE Len(s))

\* The base path, a directory that exists and holds no separator of its own
\* in this model.
BasePath == <<"~">>

\* path.join of segments without "." or ".." components
RECURSIVE Join(_)
Join(segments) ==
  IF Len(segments) = 1 THEN segments[1]
  ELSE segments[1] \o <<"/">> \o Join(Tail(segments))

\* fullPath of createEventFolder: join(basePath, year, `${date} ${safeName}`)
EventFolderPath(name, date) ==
  Join(<<BasePath, Slice(date, 0, 4), date \o <<" ">> \o sanitizeName(name)>>)

\* The directories mkdirSync(fullPath, {recursive: true}) makes sure of,
\* below the base path.
MadeDirectories(name, date) ==
  {Join(<<BasePath, Slice(date, 0, 4)>>), EventFolderPath(name, date)}

\* createEventFolder with a mkdirSync that is not recursive: it throws on a
\* directory that exists.
FolderCallOutcomeFailingIfExists(dirs, name, date) ==
  IF ~DatePattern(date) \/ EventFolderPath(name, date) \in dirs
  THEN [ok |-> FALSE, error |-> "EEXIST", path |-> << >>,
        existed |-> FALSE, dirs |-> dirs]
  ELSE [ok |-> TRUE, error |-> "", path |-> EventFolderPath(name, date),
        existed |-> FALSE, dirs |-> dirs \cup MadeDirectories(name, date)]

\* One createEventFolder call: what it returned or threw, and the directories
\* after it.
FolderCallOutcome(dirs, name, date) ==
  IF ~DatePattern(date)
  THEN [ok |-> FALSE, error |-> DateFormatMessage, path |-> << >>,
        existed |-> FALSE, dirs |-> dirs]
  ELSE [ok |-> TRUE, error |-> "", path |-> EventFolderPath(name, date),
        existed |-> EventFolderPath(name, date) \in dirs,
        dirs |-> dirs \cup MadeDirectories(name, date)]

\* The create_event_folder tool's schema: name min(1), date matching the
\* same pattern.
FolderToolSchemaAccepts(name, date) == name # << >> /\ DatePattern(date)

\* ------------------------------------------- the add_schedule handler's parts

NoNotionResult ==
  [keys |-> {}, success |-> FALSE, skipped |-> FALSE, page_id |-> 0,
   url |-> NoUrl, name |-> << >>, date |-> NoDate]

NoGCalResult ==
  [success |-> FALSE, message |-> << >>, eventId |-> 0, eventUrl |-> NoUrl]

\* The initial value of gcalDup, which a failed find leaves in place (line 37,
\* and the empty catch of lines 40-41).
GCalDupDefault == GCalAbsent

\* The duplicate response without the existing records' ids and urls.
FullDuplicateResponseWithoutIds(notionDup, gcalDup) ==
  [isError |-> FALSE,
   success |-> FALSE,
   message |-> <<"already registered (Notion + Google Calendar)">>,
   notion |-> [keys |-> {}, success |-> FALSE, skipped |-> FALSE,
               page_id |-> 0, url |-> NoUrl, name |-> << >>, date |-> NoDate],
   google_calendar |-> [success |-> FALSE, message |-> << >>,
                        eventId |-> 0, eventUrl |-> NoUrl],
   folder |-> [path |-> << >>, existed |-> FALSE]]

\* The duplicate response reporting success: true.
FullDuplicateResponseAsSuccess(notionDup, gcalDup) ==
  [isError |-> FALSE,
   success |-> TRUE,
   message |-> <<"already registered (Notion + Google Calendar)">>,
   notion |-> [keys |-> {"page_id", "url", "name", "date"},
               success |-> FALSE, skipped |-> FALSE,
               page_id |-> notionDup.page_id, url |-> notionDup.url,
               name |-> notionDup.name, date |-> notionDup.date_start],
   google_calendar |-> [success |-> FALSE, message |-> << >>,
                        eventId |-> gcalDup.eventId,
                        eventUrl |-> gcalDup.eventUrl],
   folder |-> [path |-> << >>, existed |-> FALSE]]

\* Lines 43-52: the response when both finds matched.
FullDuplicateResponse(notionDup, gcalDup) ==
  [isError |-> FALSE,
   success |-> FALSE,
   message |-> <<"already registered (Notion + Google Calendar)">>,
   notion |-> [keys |-> {"page_id", "url", "name", "date"},
               success |-> FALSE, skipped |-> FALSE,
               page_id |-> notionDup.page_id, url |-> notionDup.url,
               name |-> notionDup.name, date |-> notionDup.date_start],
   google_calendar |-> [success |-> FALSE, message |-> << >>,
                        eventId |-> gcalDup.eventId,
                        eventUrl |-> gcalDup.eventUrl],
   folder |-> NoFolder]

\* Line 43: both finds matched.
IsFullDuplicate(notionDup, gcalDup) == notionDup.found /\ gcalDup.exists

\* Line 56: the database sub-result when the page already exists.
NotionSkipped(notionDup) ==
  [keys |-> {"skipped", "message", "page_id", "url"},
   success |-> FALSE, skipped |-> TRUE,
   page_id |-> notionDup.page_id, url |-> notionDup.url,
   name |-> << >>, date |-> NoDate]

\* Line 59: the database sub-result after addSchedule returned.
NotionCreated(created) ==
  [keys |-> {"success", "schedule"},
   success |-> TRUE, skipped |-> FALSE,
   page_id |-> created.page_id, url |-> created.url,
   name |-> created.properties.Name, date |-> created.properties.Date.start]

\* The "already exists" sub-result without the existing event's id and url.
GCalAlreadyExistsWithoutId(gcalDup) ==
  [success |-> FALSE,
   message |-> <<"already registered in Google Calendar">>,
   eventId |-> 0, eventUrl |-> NoUrl]

\* Line 64: the calendar sub-result when the event already exists.
GCalAlreadyExists(gcalDup) ==
  [success |-> FALSE,
   message |-> <<"already registered in Google Calendar">>,
   eventId |-> gcalDup.eventId, eventUrl |-> gcalDup.eventUrl]

\* Lines 74-79: the calendar sub-result when createGoogleCalendarEvent threw.
GCalErrorResult(errorMessage) ==
  [success |-> FALSE,
   message |-> <<"Google Calendar error: ", errorMessage>>,
   eventId |-> 0, eventUrl |-> NoUrl]

\* Lines 82-86: the aggregate response.
AddResponse(notionResult, gcalResult) ==
  [isError |-> FALSE,
   success |-> TRUE,
   message |-> << >>,
   notion |-> notionResult,
   google_calendar |-> gcalResult,
   folder |-> NoFolder]

\* Lines 96-101: the handler's catch.
ErrorResponse(errorMessage) ==
  [isError |-> TRUE,
   success |-> FALSE,
   message |-> <<"Failed to add schedule: ", errorMessage>>,
   notion |-> NoNotionResult,
   google_calendar |-> NoGCalResult,
   folder |-> NoFolder]

NoResponse ==
  [isError |-> FALSE, success |-> FALSE, message |-> << >>,
   notion |-> NoNotionResult, google_calendar |-> NoGCalResult,
   folder |-> NoFolder]

NoParams ==
  [name |-> << >>, date_start |-> NoDate, date_end |-> NoDate,
   create_folder |-> FALSE]

\* ------------------------------------------- the update_schedule handler's parts

\* An update request's fields are a function from the names of the fields it
\* supplies to their values; a field it omits (undefined) is not in the domain.
Has(updates, field) == field \in DOMAIN updates

\* A field that is supplied and truthy (not the empty string).
Truthy(updates, field) == Has(updates, field) /\ updates[field] # << >>

\* A Notion page without a Date value: the property reads as null.
NullDate == [start |-> NoDate, end |-> NoDate]

\* NotionScheduleClient.buildProperties(input, requireNameAndDate = false):
\* the properties of the PATCH body, by property name.
buildUpdateProperties(updates) ==
  LET names == (IF Truthy(updates, "name") THEN {"Name"} ELSE {})
               \cup (IF Truthy(updates, "date_start") THEN {"Date"} ELSE {})
               \cup (IF Has(updates, "place") THEN {"Place"} ELSE {})
  IN [k \in names |->
        CASE k = "Name" -> updates["name"]
          [] k = "Date" -> [start |-> updates["date_start"],
                            end |-> IF Has(updates, "date_end")
                                    THEN updates["date_end"] ELSE NoDate]
          [] OTHER -> updates["place"]]

DateEndWithoutStartMessage == "date_start must be set when date_end is provided"

NoUpdatableFieldMessage == "At least one updatable field is required"

\* updateSchedule without its check that the PATCH body holds a property.
updateScheduleErrorWithoutEmptyCheck(updates) ==
  IF Truthy(updates, "date_end") /\ ~Truthy(updates, "date_start")
  THEN DateEndWithoutStartMessage
  ELSE ""

\* NotionScheduleClient.updateSchedule's checks before the request: "" when
\* the input passes, else the message of the Error thrown.
updateScheduleError(updates) ==
  IF Truthy(updates, "date_end") /\ ~Truthy(updates, "date_start")
  THEN DateEndWithoutStartMessage
  ELSE IF DOMAIN buildUpdateProperties(updates) = {}
       THEN NoUpdatableFieldMessage
       ELSE ""

\* The page ids in use.
PageIds(pages) == {pages[i].id : i \in 1..Len(pages)}

PageIndex(pages, pageId) == CHOOSE i \in 1..Len(pages) : pages[i].id = pageId

NotionNotFoundMessage == "Could not find page"

\* PATCH /pages/{id}: the properties of the body replace the stored ones, the
\* others stay.
PatchPage(page, properties) ==
  [page EXCEPT !.properties =
     [k \in DOMAIN page.properties |->
        IF k \in DOMAIN properties THEN properties[k] ELSE page.properties[k]]]

\* Lines 32-34: oldName and oldDateStart, "" when the record has none.
OldIdentity(current) ==
  [name |-> current.properties.Name,
   dateStart |-> current.properties.Date.start]

\* The key of the calendar lookup taken from the record as updateSchedule
\* returned it.
CalendarLookupKeyAfterWrite(current, updated) == OldIdentity(updated)

\* Lines 31-34 and 41: the calendar record is looked up under the identity
\* read by getSchedule before the write.
CalendarLookupKey(current, updated) == OldIdentity(current)

\* The calendar step attempted whatever was recovered.
OldIdentityKnownAlways(old) == TRUE

\* Line 39: oldName && oldDateStart
OldIdentityKnown(old) == old.name # << >> /\ old.dateStart # NoDate

\* Line 55: the sub-result of the skipped calendar step.
GCalUpdateSkipped ==
  [success |-> FALSE, skipped |-> TRUE,
   message |-> <<"cannot determine the existing name/date; skipping the GCal update">>,
   eventId |-> 0]

\* Lines 49-52
GCalUpdateError(errorMessage) ==
  [success |-> FALSE, skipped |-> FALSE,
   message |-> <<"Google Calendar error: ", errorMessage>>, eventId |-> 0]

\* Lines 41-47: the fields handed to updateGoogleCalendarEvent; an omitted
\* field is handed over as undefined.
GCalUpdates(updates) ==
  [k \in {f \in {"name", "dateStart", "dateEnd", "place"} :
            Has(updates, CASE f = "dateStart" -> "date_start"
                           [] f = "dateEnd" -> "date_end"
                           [] OTHER -> f)} |->
     CASE k = "dateStart" -> updates["date_start"]
       [] k = "dateEnd" -> updates["date_end"]
       [] OTHER -> updates[k]]

\* The days from a to b, for a not after b.
RECURSIVE DaysBetween(_, _)
DaysBetween(a, b) == IF ~DateLT(a, b) THEN 0 ELSE 1 + DaysBetween(nextDay(a), b)

RECURSIVE AddDays(_, _)
AddDays(date, n) == IF n = 0 THEN date ELSE AddDays(nextDay(date), n - 1)

\* updateGoogleCalendarEvent's patch: the fields present in the request are
\* copied, the others stay; a new start without an end keeps the span.
PatchEvent(event, gupdates) ==
  LET start == IF Has(gupdates, "dateStart") THEN gupdates["dateStart"] ELSE event.start
      end == IF Has(gupdates, "dateEnd") THEN nextDay(gupdates["dateEnd"])
             ELSE IF Has(gupdates, "dateStart")
                  THEN AddDays(start, DaysBetween(event.start, event.end))
                  ELSE event.end
  IN [event EXCEPT
        !.summary = IF Has(gupdates, "name") THEN gupdates["name"] ELSE @,
        !.start = start,
        !.end = end,
        !.location = IF Has(gupdates, "place") THEN gupdates["place"] ELSE @]

GCalUpdateNotFound ==
  [success |-> FALSE, skipped |-> FALSE,
   message |-> <<"No matching Google Calendar event found">>, eventId |-> 0]

GCalUpdated(eventId) ==
  [success |-> TRUE, skipped |-> FALSE,
   message |-> <<"Event updated in Google Calendar">>, eventId |-> eventId]

GCalUpdateNotConfigured ==
  [success |-> FALSE, skipped |-> FALSE,
   message |-> <<"Google Calendar not configured. Run: node build/auth-setup.js">>,
   eventId |-> 0]

NoGCalUpdateResult ==
  [success |-> FALSE, skipped |-> FALSE, message |-> << >>, eventId |-> 0]

\* Lines 58-64
UpdateResponse(notionRes, gcalRes) ==
  [isError |-> FALSE, success |-> TRUE, message |-> << >>,
   notion |-> [success |-> TRUE, schedule |-> notionRes],
   google_calendar |-> gcalRes]

NoSchedule == [page_id |-> 0, url |-> NoUrl, properties |-> [Name |-> << >>, Date |-> NullDate]]

\* Lines 65-70: the handler's catch.
UpdateErrorResponse(errorMessage) ==
  [isError |-> TRUE, success |-> FALSE,
   message |-> <<"Failed to update schedule: ", errorMessage>>,
   notion |-> [success |-> FALSE, schedule |-> NoSchedule],
   google_calendar |-> NoGCalUpdateResult]

NoUpdateResponse ==
  [isError |-> FALSE, success |-> FALSE, message |-> << >>,
   notion |-> [success |-> FALSE, schedule |-> NoSchedule],
   google_calendar |-> NoGCalUpdateResult]

\* ------------------------------------------------------------------- state

VARIABLES
  pages,         \* the Notion database: the pages, in creation order
  events,        \* the primary calendar: the events, in creation order
  folders,       \* the folder paths that exist below the base path
  auth,          \* the state of credentials.json and token.json
  pc,            \* per client: where its add_schedule call stands
  params,        \* per client: the call's arguments
  notionDup,     \* per client: the handler's notionDup
  gcalDup,       \* per client: the handler's gcalDup
  notionResult,  \* per client: the handler's notionResult
  response,      \* per client: what the call returned
  log,           \* per client: the backend requests the call issued
  ncalls,        \* the calls started so far
  dirs,          \* the directories that exist below the base path
  folderLog,     \* the createEventFolder calls made so far
  upd            \* the update_schedule call: where it stands, what it holds

vars == <<pages, events, folders, auth, pc, params, notionDup, gcalDup,
          notionResult, response, log, ncalls, dirs, folderLog, upd>>

\* What the add_schedule handler leaves alone.
otherToolVars == <<dirs, folderLog, upd>>

\* What the other tools leave alone.
addVars == <<folders, pc, params, notionDup, gcalDup, notionResult, response,
             log, ncalls>>

NoUpdates == << >>

\* No update_schedule call is under way.
NoUpdateCall ==
  [pc |-> "idle", page_id |-> 0, updates |-> NoUpdates, current |-> NoSchedule,
   key |-> [name |-> << >>, dateStart |-> NoDate],
   notionResult |-> NoSchedule, response |-> NoUpdateResponse, log |-> << >>,
   prePages |-> << >>, preEvents |-> << >>]

AddParams ==
  {[name |-> n, date_start |-> d, date_end |-> e, create_folder |-> f] :
     n \in NameSet, d \in DateSet, e \in {NoDate, <<2026, 3, 11>>},
     f \in BOOLEAN}

\* What the tool's schema lets through: a name, a date_start, and in this
\* model a date_end only on the first date.
ValidAddParams == {p \in AddParams : p.date_end \in DateEndSet(p.date_start)}

Logged(c, op, ok, id) == log' = [log EXCEPT ![c] = Append(@, [op |-> op, ok |-> ok, id |-> id])]

Init ==
  /\ pages = << >>
  /\ events = << >>
  /\ folders = {}
  /\ auth \in AuthStates
  /\ pc = [c \in Clients |-> "idle"]
  /\ params = [c \in Clients |-> NoParams]
  /\ notionDup = [c \in Clients |-> NoDuplicate]
  /\ gcalDup = [c \in Clients |-> GCalAbsent]
  /\ notionResult = [c \in Clients |-> NoNotionResult]
  /\ response = [c \in Clients |-> NoResponse]
  /\ log = [c \in Clients |-> << >>]
  /\ ncalls = 0
  /\ dirs = {}
  /\ folderLog = << >>
  /\ upd = NoUpdateCall

\* ------------------------------------------------------------- the handler

\* Lines 82-95: build the response, run the folder step when asked to, return.
\* A date_start that is not yyyy-mm-dd makes createEventFolder throw into the
\* handler's catch (lines 96-101).
Finish(c, nRes, gRes) ==
  /\ pc' = [pc EXCEPT ![c] = "done"]
  /\ IF params[c].create_folder
     THEN IF validateDateThrows(params[c].date_start)
          THEN /\ response' = [response EXCEPT ![c] = ErrorResponse(DateFormatMessage)]
               /\ UNCHANGED folders
          ELSE /\ response' = [response EXCEPT ![c] =
                    [AddResponse(nRes, gRes) EXCEPT !.folder =
                       createEventFolder(folders, params[c].name, params[c].date_start)]]
               /\ folders' = folders \cup {FolderPath(params[c].name, params[c].date_start)}
     ELSE /\ response' = [response EXCEPT ![c] = AddResponse(nRes, gRes)]
          /\ UNCHANGED folders

\* Lines 62-65: with the database sub-result known, skip the calendar when
\* its find matched, else go on to createGoogleCalendarEvent.
AfterNotionResult(c, nRes, gd) ==
  /\ notionResult' = [notionResult EXCEPT ![c] = nRes]
  /\ IF gd.exists
     THEN Finish(c, nRes, GCalAlreadyExists(gd))
     ELSE /\ pc' = [pc EXCEPT ![c] = "gcalCreate"]
          /\ UNCHANGED <<response, folders>>

\* Lines 43-60, run when the calendar find has settled with gd.
AfterFinds(c, gd) ==
  /\ gcalDup' = [gcalDup EXCEPT ![c] = gd]
  /\ IF IsFullDuplicate(notionDup[c], gd)
     THEN /\ response' = [response EXCEPT ![c] = FullDuplicateResponse(notionDup[c], gd)]
          /\ pc' = [pc EXCEPT ![c] = "done"]
          /\ UNCHANGED <<notionResult, folders>>
     ELSE IF notionDup[c].found
          THEN AfterNotionResult(c, NotionSkipped(notionDup[c]), gd)
          ELSE /\ pc' = [pc EXCEPT ![c] = "notionCreate"]
               /\ UNCHANGED <<notionResult, response, folders>>

\* The handler's catch, reached by an exception outside the inner try blocks.
Fail(c, errorMessage) ==
  /\ response' = [response EXCEPT ![c] = ErrorResponse(errorMessage)]
  /\ pc' = [pc EXCEPT ![c] = "done"]

\* A client calls add_schedule; calls are made one after another.
AddScheduleCall(c, p) ==
  /\ \A d \in Clients : pc[d] = "idle"
  /\ ncalls < MaxCalls
  /\ ncalls' = ncalls + 1
  /\ params' = [params EXCEPT ![c] = p]
  /\ pc' = [pc EXCEPT ![c] = "notionFind"]
  /\ notionDup' = [notionDup EXCEPT ![c] = NoDuplicate]
  /\ gcalDup' = [gcalDup EXCEPT ![c] = GCalDupDefault]
  /\ notionResult' = [notionResult EXCEPT ![c] = NoNotionResult]
  /\ response' = [response EXCEPT ![c] = NoResponse]
  /\ log' = [log EXCEPT ![c] = << >>]
  /\ UNCHANGED <<pages, events, folders, auth>>
  /\ UNCHANGED otherToolVars

\* Line 36: findDuplicate returns.
NotionFindReturns(c) ==
  /\ pc[c] = "notionFind"
  /\ notionDup' = [notionDup EXCEPT ![c] =
        findDuplicate(pages, params[c].name, params[c].date_start)]
  /\ pc' = [pc EXCEPT ![c] = "gcalFind"]
  /\ Logged(c, "notion.find", TRUE, 0)
  /\ UNCHANGED <<pages, events, folders, auth, params, gcalDup, notionResult,
                 response, ncalls>>
  /\ UNCHANGED otherToolVars

\* Line 36: findDuplicate throws, into the handler's catch.
NotionFindThrows(c, err) ==
  /\ pc[c] = "notionFind"
  /\ Fail(c, err)
  /\ Logged(c, "notion.find", FALSE, 0)
  /\ UNCHANGED <<pages, events, folders, auth, params, notionDup, gcalDup,
                 notionResult, ncalls>>
  /\ UNCHANGED otherToolVars

\* Lines 38-41, findGoogleCalendarEvent without an authorized client: it
\* returns {exists: false} and sends no request.
GCalFindUnauthorized(c) ==
  /\ pc[c] = "gcalFind"
  /\ getAuthorizedClient(auth) = "null"
  /\ AfterFinds(c, GCalAbsent)
  /\ UNCHANGED <<pages, events, auth, params, notionDup, log, ncalls>>
  /\ UNCHANGED otherToolVars

\* Lines 40-41 rethrowing instead of swallowing: the handler's catch runs.
GCalFindCatchRethrows(c) ==
  /\ Fail(c, "calendar find failed")
  /\ UNCHANGED <<gcalDup, notionResult, folders>>

\* Lines 40-41: the empty catch around findGoogleCalendarEvent leaves gcalDup
\* as it was, and the handler goes on.
GCalFindCatch(c) == AfterFinds(c, gcalDup[c])

\* Lines 38-41: getAuthorizedClient throws inside findGoogleCalendarEvent.
GCalFindAuthThrows(c) ==
  /\ pc[c] = "gcalFind"
  /\ getAuthorizedClient(auth) = "throws"
  /\ GCalFindCatch(c)
  /\ UNCHANGED <<pages, events, auth, params, notionDup, log, ncalls>>
  /\ UNCHANGED otherToolVars

\* Lines 38-39: events.list answers.
GCalFindReturns(c) ==
  /\ pc[c] = "gcalFind"
  /\ getAuthorizedClient(auth) = "client"
  /\ IsYmd(params[c].date_start)
  /\ \E gd \in findGoogleCalendarEvent(events, params[c].name, params[c].date_start) :
       AfterFinds(c, gd)
  /\ Logged(c, "gcal.find", TRUE, 0)
  /\ UNCHANGED <<pages, events, auth, params, notionDup, ncalls>>
  /\ UNCHANGED otherToolVars

\* Lines 38-41: events.list fails (transport, auth, or a malformed timeMin).
GCalFindThrows(c) ==
  /\ pc[c] = "gcalFind"
  /\ getAuthorizedClient(auth) = "client"
  /\ GCalFindCatch(c)
  /\ Logged(c, "gcal.find", FALSE, 0)
  /\ UNCHANGED <<pages, events, auth, params, notionDup, ncalls>>
  /\ UNCHANGED otherToolVars

\* Lines 58-59: addSchedule stores the page and returns it.
NotionCreateReturns(c) ==
  /\ pc[c] = "notionCreate"
  /\ addScheduleError(params[c]) = ""
  /\ LET page == NewPage(pages, params[c])
     IN /\ pages' = Append(pages, page)
        /\ AfterNotionResult(c, NotionCreated(SchedulePageDetails(page)), gcalDup[c])
        /\ Logged(c, "notion.create", TRUE, page.id)
  /\ UNCHANGED <<events, auth, params, notionDup, gcalDup, ncalls>>
  /\ UNCHANGED otherToolVars

\* Line 58: addSchedule throws (its own checks, or the request fails), into
\* the handler's catch.
NotionCreateThrows(c, err) ==
  /\ pc[c] = "notionCreate"
  /\ err \in (IF addScheduleError(params[c]) = "" THEN NotionErrors
              ELSE {addScheduleError(params[c])})
  /\ Fail(c, err)
  /\ Logged(c, "notion.create", FALSE, 0)
  /\ UNCHANGED <<pages, events, folders, auth, params, notionDup, gcalDup,
                 notionResult, ncalls>>
  /\ UNCHANGED otherToolVars

\* Lines 66-73, createGoogleCalendarEvent without an authorized client: it
\* returns "not configured" and sends no request.
GCalCreateUnauthorized(c) ==
  /\ pc[c] = "gcalCreate"
  /\ getAuthorizedClient(auth) = "null"
  /\ Finish(c, notionResult[c], GCalNotConfigured)
  /\ UNCHANGED <<pages, events, auth, params, notionDup, gcalDup, notionResult,
                 log, ncalls>>
  /\ UNCHANGED otherToolVars

\* Lines 74-79: getAuthorizedClient throws inside createGoogleCalendarEvent.
GCalCreateAuthThrows(c) ==
  /\ pc[c] = "gcalCreate"
  /\ getAuthorizedClient(auth) = "throws"
  /\ Finish(c, notionResult[c], GCalErrorResult(InvalidCredentialsMessage))
  /\ UNCHANGED <<pages, events, auth, params, notionDup, gcalDup, notionResult,
                 log, ncalls>>
  /\ UNCHANGED otherToolVars

\* Lines 66-73: events.insert stores the event.
GCalCreateReturns(c) ==
  /\ pc[c] = "gcalCreate"
  /\ getAuthorizedClient(auth) = "client"
  /\ InsertAccepts(EventBody(GCalEventInput(params[c])))
  /\ LET event == NewEvent(events, EventBody(GCalEventInput(params[c])))
     IN /\ events' = Append(events, event)
        /\ Finish(c, notionResult[c], GCalCreated(event))
        /\ Logged(c, "gcal.create", TRUE, event.id)
  /\ UNCHANGED <<pages, auth, params, notionDup, gcalDup, notionResult, ncalls>>
  /\ UNCHANGED otherToolVars

\* Lines 74-79: events.insert fails (transport, auth, or a malformed date).
GCalCreateThrows(c, err) ==
  /\ pc[c] = "gcalCreate"
  /\ getAuthorizedClient(auth) = "client"
  /\ Finish(c, notionResult[c], GCalErrorResult(err))
  /\ Logged(c, "gcal.create", FALSE, 0)
  /\ UNCHANGED <<pages, events, auth, params, notionDup, gcalDup, notionResult,
                 ncalls>>
  /\ UNCHANGED otherToolVars

\* The client has read the response.
Return(c) ==
  /\ pc[c] = "done"
  /\ pc' = [pc EXCEPT ![c] = "idle"]
  /\ params' = [params EXCEPT ![c] = NoParams]
  /\ notionDup' = [notionDup EXCEPT ![c] = NoDuplicate]
  /\ gcalDup' = [gcalDup EXCEPT ![c] = GCalAbsent]
  /\ notionResult' = [notionResult EXCEPT ![c] = NoNotionResult]
  /\ response' = [response EXCEPT ![c] = NoResponse]
  /\ log' = [log EXCEPT ![c] = << >>]
  /\ UNCHANGED <<pages, events, folders, auth, ncalls>>
  /\ UNCHANGED otherToolVars

Next ==
  \/ \E c \in Clients, p \in ValidAddParams : AddScheduleCall(c, p)
  \/ \E c \in Clients : NotionFindReturns(c)
  \/ \E c \in Clients, err \in NotionErrors : NotionFindThrows(c, err)
  \/ \E c \in Clients : GCalFindUnauthorized(c)
  \/ \E c \in Clients : GCalFindAuthThrows(c)
  \/ \E c \in Clients : GCalFindReturns(c)
  \/ \E c \in Clients : GCalFindThrows(c)
  \/ \E c \in Clients : NotionCreateReturns(c)
  \/ \E c \in Clients, err \in NotionErrors : NotionCreateThrows(c, err)
  \/ \E c \in Clients : GCalCreateUnauthorized(c)
  \/ \E c \in Clients : GCalCreateAuthThrows(c)
  \/ \E c \in Clients : GCalCreateReturns(c)
  \/ \E c \in Clients, err \in GCalErrors : GCalCreateThrows(c, err)
  \/ \E c \in Clients : Return(c)

Spec == Init /\ [][Next]_vars

TypeOK ==
  /\ pc \in [Clients -> {"idle", "notionFind", "gcalFind", "notionCreate", "gcalCreate", "done"}]
  /\ ncalls \in 0..MaxCalls
  /\ Len(pages) <= MaxCalls
  /\ Len(events) <= MaxCalls

\* ------------------------------------------------- a day with other events

\* A calendar that already holds maxResults events on 2026-03-10 whose titles
\* hold the text "a", none of them titled "a".
BusyDayEvents ==
  [i \in 1..MaxResults |->
     [id |-> i, htmlLink |-> EventUrl(i),
      summary |-> <<"a", CASE i = 1 -> "b" [] i = 2 -> "c" [] i = 3 -> "d"
                           [] i = 4 -> "e" [] OTHER -> "f">>,
      start |-> <<2026, 3, 10>>, end |-> <<2026, 3, 11>>]]

InitBusyDay ==
  /\ pages = << >>
  /\ events = BusyDayEvents
  /\ folders = {}
  /\ auth = "ok"
  /\ pc = [c \in Clients |-> "idle"]
  /\ params = [c \in Clients |-> NoParams]
  /\ notionDup = [c \in Clients |-> NoDuplicate]
  /\ gcalDup = [c \in Clients |-> GCalAbsent]
  /\ notionResult = [c \in Clients |-> NoNotionResult]
  /\ response = [c \in Clients |-> NoResponse]
  /\ log = [c \in Clients |-> << >>]
  /\ ncalls = 0
  /\ dirs = {}
  /\ folderLog = << >>
  /\ upd = NoUpdateCall

\* Both backends reachable: the calendar client is authorized, the dates are
\* "yyyy-mm-dd", and every request is answered.
NextReachable ==
  \/ \E c \in Clients, p \in {q \in ValidAddParams : IsYmd(q.date_start)} :
       AddScheduleCall(c, p)
  \/ \E c \in Clients : NotionFindReturns(c)
  \/ \E c \in Clients : GCalFindReturns(c)
  \/ \E c \in Clients : NotionCreateReturns(c)
  \/ \E c \in Clients : GCalCreateReturns(c)
  \/ \E c \in Clients : Return(c)

SpecBusyDay == InitBusyDay /\ [][NextReachable]_vars

\* ------------------------------------------------ events at the boundaries

\* The ranges of the events added: within a month, over a month's end, over
\* the year's end, and around the leap day of 2024 and the end of February
\* 2026; NoDate for an event without date_end.
BoundaryRanges ==
  { << <<2026, 3, 10>>, <<2026, 3, 12>> >>,
    << <<2026, 3, 10>>, NoDate >>,
    << <<2026, 1, 31>>, NoDate >>,
    << <<2026, 4, 29>>, <<2026, 4, 30>> >>,
    << <<2026, 12, 30>>, <<2026, 12, 31>> >>,
    << <<2026, 12, 31>>, NoDate >>,
    << <<2024, 2, 27>>, <<2024, 2, 28>> >>,
    << <<2024, 2, 29>>, NoDate >>,
    << <<2026, 2, 28>>, NoDate >> }

BoundaryAddParams ==
  {[name |-> <<"a">>, date_start |-> r[1], date_end |-> r[2], create_folder |-> FALSE] :
     r \in BoundaryRanges}

InitBoundary == Init /\ auth = "ok"

NextBoundary ==
  \/ \E c \in Clients, p \in BoundaryAddParams : AddScheduleCall(c, p)
  \/ \E c \in Clients : NotionFindReturns(c)
  \/ \E c \in Clients : GCalFindReturns(c)
  \/ \E c \in Clients : NotionCreateReturns(c)
  \/ \E c \in Clients : GCalCreateReturns(c)
  \/ \E c \in Clients : Return(c)

SpecBoundary == InitBoundary /\ [][NextBoundary]_vars

\* ---------------------------------------------- calls from different clients

\* What two clients ask for at the same time: the same event, or two events.
ConcurrentAddParams ==
  {[name |-> <<"a">>, date_start |-> d, date_end |-> NoDate, create_folder |-> FALSE] :
     d \in {<<2026, 3, 10>>, <<2026, 3, 11>>}}

\* The tool serving one call at a time: a call starts only when no other is
\* under way.
AddScheduleCallSerialized(c, p) == AddScheduleCall(c, p)

\* A client calls add_schedule while another client's call may be under way:
\* each await of a handler lets the other handler run, and the handler takes
\* no lock.
AddScheduleCallConcurrent(c, p) ==
  /\ pc[c] = "idle"
  /\ ncalls < MaxCalls
  /\ ncalls' = ncalls + 1
  /\ params' = [params EXCEPT ![c] = p]
  /\ pc' = [pc EXCEPT ![c] = "notionFind"]
  /\ notionDup' = [notionDup EXCEPT ![c] = NoDuplicate]
  /\ gcalDup' = [gcalDup EXCEPT ![c] = GCalDupDefault]
  /\ notionResult' = [notionResult EXCEPT ![c] = NoNotionResult]
  /\ response' = [response EXCEPT ![c] = NoResponse]
  /\ log' = [log EXCEPT ![c] = << >>]
  /\ UNCHANGED <<pages, events, folders, auth>>
  /\ UNCHANGED otherToolVars

NextConcurrent ==
  \/ \E c \in Clients, p \in ConcurrentAddParams : AddScheduleCallConcurrent(c, p)
  \/ \E c \in Clients : NotionFindReturns(c)
  \/ \E c \in Clients, err \in NotionErrors : NotionFindThrows(c, err)
  \/ \E c \in Clients : GCalFindUnauthorized(c)
  \/ \E c \in Clients : GCalFindAuthThrows(c)
  \/ \E c \in Clients : GCalFindReturns(c)
  \/ \E c \in Clients : GCalFindThrows(c)
  \/ \E c \in Clients : NotionCreateReturns(c)
  \/ \E c \in Clients, err \in NotionErrors : NotionCreateThrows(c, err)
  \/ \E c \in Clients : GCalCreateUnauthorized(c)
  \/ \E c \in Clients : GCalCreateAuthThrows(c)
  \/ \E c \in Clients : GCalCreateReturns(c)
  \/ \E c \in Clients, err \in GCalErrors : GCalCreateThrows(c, err)
  \/ \E c \in Clients : Return(c)

SpecConcurrent == Init /\ [][NextConcurrent]_vars

\* ------------------------------------------------- the folder mirror's calls

FolderNames ==
  { << >>, <<"a">>, <<" ", "a", " ">>, <<"a", "/", "b">>, <<"a", ":", "b">>,
    <<".", ".">> }

\* "2026-03-10", "2027-01-05", "2026-3-10", "2026/03/10", "2026-03-10T09",
\* "2026-03-1x" and "".
FolderDates ==
  { <<"2", "0", "2", "6", "-", "0", "3", "-", "1", "0">>,
    <<"2", "0", "2", "7", "-", "0", "1", "-", "0", "5">>,
    <<"2", "0", "2", "6", "-", "3", "-", "1", "0">>,
    <<"2", "0", "2", "6", "/", "0", "3", "/", "1", "0">>,
    <<"2", "0", "2", "6", "-", "0", "3", "-", "1", "0", "T", "0", "9">>,
    <<"2", "0", "2", "6", "-", "0", "3", "-", "1", "x">>,
    << >> }

FolderLogEntry(via, name, date, outcome) ==
  [via |-> via, name |-> name, date |-> date, ok |-> outcome.ok,
   error |-> outcome.error, path |-> outcome.path, existed |-> outcome.existed,
   before |-> dirs, after |-> outcome.dirs]

\* DropboxService.createEventFolder(name, date), called as the add_schedule
\* handler calls it: with a name and a date no pattern has checked.
createEventFolderCall(name, date) ==
  /\ Len(folderLog) < MaxFolderCalls
  /\ LET outcome == FolderCallOutcome(dirs, name, date)
     IN /\ dirs' = outcome.dirs
        /\ folderLog' = Append(folderLog, FolderLogEntry("service", name, date, outcome))
  /\ UNCHANGED <<pages, events, auth, upd, addVars>>

\* The create_event_folder tool with arguments its schema lets through: the
\* handler calls createEventFolder and reports path and existed.
CreateEventFolderTool(name, date) ==
  /\ Len(folderLog) < MaxFolderCalls
  /\ FolderToolSchemaAccepts(name, date)
  /\ LET outcome == FolderCallOutcome(dirs, name, date)
     IN /\ dirs' = outcome.dirs
        /\ folderLog' = Append(folderLog, FolderLogEntry("tool", name, date, outcome))
  /\ UNCHANGED <<pages, events, auth, upd, addVars>>

\* The create_event_folder tool with arguments its schema rejects: the handler
\* does not run.
CreateEventFolderToolRejects(name, date) ==
  /\ Len(folderLog) < MaxFolderCalls
  /\ ~FolderToolSchemaAccepts(name, date)
  /\ folderLog' = Append(folderLog,
        [via |-> "schema", name |-> name, date |-> date, ok |-> FALSE,
         error |-> "invalid arguments", path |-> << >>, existed |-> FALSE,
         before |-> dirs, after |-> dirs])
  /\ UNCHANGED <<pages, events, auth, dirs, upd, addVars>>

NextFolder ==
  \/ \E name \in FolderNames, date \in FolderDates : createEventFolderCall(name, date)
  \/ \E name \in FolderNames, date \in FolderDates : CreateEventFolderTool(name, date)
  \/ \E name \in FolderNames, date \in FolderDates : CreateEventFolderToolRejects(name, date)

\* The folder mirror does not depend on the calendar's credentials.
InitFolder == Init /\ auth = "ok"

SpecFolder == InitFolder /\ [][NextFolder]_vars

\* ------------------------------------------------- the update_schedule handler

\* The database and the calendar an update finds: the two-day event "a" of
\* 03-10 .. 03-11 at place "p" in both backends, a page without a Date, and
\* a page without a title.
UpdatePages ==
  << [id |-> 1, url |-> PageUrl(1),
      properties |-> [Name |-> <<"a">>,
                      Date |-> [start |-> <<2026, 3, 10>>, end |-> <<2026, 3, 11>>],
                      Place |-> <<"p">>]],
     [id |-> 2, url |-> PageUrl(2),
      properties |-> [Name |-> <<"a", "b">>, Date |-> NullDate, Place |-> << >>]],
     [id |-> 3, url |-> PageUrl(3),
      properties |-> [Name |-> << >>,
                      Date |-> [start |-> <<2026, 3, 11>>, end |-> NoDate],
                      Place |-> << >>]] >>

UpdateEvents ==
  << [id |-> 1, htmlLink |-> EventUrl(1), summary |-> <<"a">>,
      start |-> <<2026, 3, 10>>, end |-> <<2026, 3, 12>>, location |-> <<"p">>] >>

\* The ids an update names: the three pages and one that does not resolve.
UpdatePageIds == {1, 2, 3, 9}

Fields(name, value) == [k \in {name} |-> value]

UpdateSet ==
  { NoUpdates,
    Fields("name", <<"A">>),
    Fields("name", << >>),
    Fields("place", <<"q">>),
    Fields("place", << >>),
    Fields("date_start", <<2026, 3, 20>>),
    Fields("date_end", <<2026, 3, 12>>),
    [k \in {"date_start", "date_end"} |->
       IF k = "date_start" THEN <<2026, 3, 20>> ELSE <<2026, 3, 20>>],
    [k \in {"name", "date_start"} |->
       IF k = "name" THEN <<"A">> ELSE <<2026, 3, 20>>] }

InitUpdate ==
  /\ pages = UpdatePages
  /\ events = UpdateEvents
  /\ folders = {}
  /\ auth \in AuthStates
  /\ pc = [c \in Clients |-> "idle"]
  /\ params = [c \in Clients |-> NoParams]
  /\ notionDup = [c \in Clients |-> NoDuplicate]
  /\ gcalDup = [c \in Clients |-> GCalAbsent]
  /\ notionResult = [c \in Clients |-> NoNotionResult]
  /\ response = [c \in Clients |-> NoResponse]
  /\ log = [c \in Clients |-> << >>]
  /\ ncalls = 0
  /\ dirs = {}
  /\ folderLog = << >>
  /\ upd = NoUpdateCall

UpdLogged(u, op, ok, key) == [u EXCEPT !.log = Append(@, [op |-> op, ok |-> ok, key |-> key])]

NoKey == [name |-> << >>, dateStart |-> NoDate]

\* The handler catching the database failure and going on to the calendar
\* step with what it has read.
UpdateFailsGoingOnToCalendar(u, errorMessage) ==
  [u EXCEPT !.pc = "gcalUpdate", !.key = OldIdentity(u.current)]

\* Lines 65-70: an exception outside the inner try ends the call.
UpdateFails(u, errorMessage) ==
  [u EXCEPT !.pc = "done", !.response = UpdateErrorResponse(errorMessage)]

\* Lines 58-64: the call returns its response.
UpdateFinishes(u, gcalRes) ==
  [u EXCEPT !.pc = "done", !.response = UpdateResponse(u.notionResult, gcalRes)]

\* A client calls update_schedule; calls are made one after another.
UpdateScheduleCall(pageId, updates) ==
  /\ upd.pc = "idle"
  /\ ncalls < MaxUpdateCalls
  /\ ncalls' = ncalls + 1
  /\ upd' = [NoUpdateCall EXCEPT !.pc = "getSchedule", !.page_id = pageId,
                                  !.updates = updates, !.prePages = pages,
                                  !.preEvents = events]
  /\ UNCHANGED <<pages, events, folders, auth, pc, params, notionDup, gcalDup,
                 notionResult, response, log, dirs, folderLog>>

\* Line 31: getSchedule returns the stored record.
GetScheduleReturns ==
  /\ upd.pc = "getSchedule"
  /\ upd.page_id \in PageIds(pages)
  /\ upd' = UpdLogged([upd EXCEPT !.pc = "updateSchedule",
                         !.current = SchedulePageDetails(pages[PageIndex(pages, upd.page_id)])],
                      "notion.get", TRUE, NoKey)
  /\ UNCHANGED <<pages, events, auth, dirs, folderLog, addVars>>

\* Line 31: getSchedule throws: the id does not resolve, or the request
\* fails.
GetScheduleThrows(err) ==
  /\ upd.pc = "getSchedule"
  /\ err \in (IF upd.page_id \in PageIds(pages) THEN NotionErrors
              ELSE {NotionNotFoundMessage})
  /\ upd' = UpdLogged(UpdateFails(upd, err), "notion.get", FALSE, NoKey)
  /\ UNCHANGED <<pages, events, auth, dirs, folderLog, addVars>>

\* Line 36: updateSchedule throws before it sends a request.
UpdateScheduleRejects ==
  /\ upd.pc = "updateSchedule"
  /\ updateScheduleError(upd.updates) # ""
  /\ upd' = UpdateFails(upd, updateScheduleError(upd.updates))
  /\ UNCHANGED <<pages, events, auth, dirs, folderLog, addVars>>

\* Lines 36-56: the PATCH is stored and the record comes back; the calendar
\* step follows when the identity read before the write is known, else it is
\* skipped and the call returns.
UpdateScheduleReturns ==
  /\ upd.pc = "updateSchedule"
  /\ updateScheduleError(upd.updates) = ""
  /\ LET i == PageIndex(pages, upd.page_id)
         page == PatchPage(pages[i], buildUpdateProperties(upd.updates))
         key == CalendarLookupKey(upd.current, SchedulePageDetails(page))
         u == UpdLogged([upd EXCEPT !.notionResult = SchedulePageDetails(page),
                                    !.key = key],
                        "notion.update", TRUE, NoKey)
     IN /\ pages' = [pages EXCEPT ![i] = page]
        /\ upd' = IF OldIdentityKnown(key)
                  THEN [u EXCEPT !.pc = "gcalUpdate"]
                  ELSE UpdateFinishes(u, GCalUpdateSkipped)
  /\ UNCHANGED <<events, auth, dirs, folderLog, addVars>>

\* Line 36: the PATCH request fails.
UpdateScheduleThrows(err) ==
  /\ upd.pc = "updateSchedule"
  /\ updateScheduleError(upd.updates) = ""
  /\ upd' = UpdLogged(UpdateFails(upd, err), "notion.update", FALSE, NoKey)
  /\ UNCHANGED <<pages, events, auth, dirs, folderLog, addVars>>

\* Lines 41-47, updateGoogleCalendarEvent without an authorized client.
GCalUpdateUnauthorized ==
  /\ upd.pc = "gcalUpdate"
  /\ getAuthorizedClient(auth) = "null"
  /\ upd' = UpdateFinishes(upd, GCalUpdateNotConfigured)
  /\ UNCHANGED <<pages, events, auth, dirs, folderLog, addVars>>

\* Lines 48-53: getAuthorizedClient throws inside updateGoogleCalendarEvent.
GCalUpdateAuthThrows ==
  /\ upd.pc = "gcalUpdate"
  /\ getAuthorizedClient(auth) = "throws"
  /\ upd' = UpdateFinishes(upd, GCalUpdateError(InvalidCredentialsMessage))
  /\ UNCHANGED <<pages, events, auth, dirs, folderLog, addVars>>

\* Lines 41-47: updateGoogleCalendarEvent looks the event up under the key
\* and patches it, or finds none.
GCalUpdateReturns ==
  /\ upd.pc = "gcalUpdate"
  /\ getAuthorizedClient(auth) = "client"
  /\ IsYmd(upd.key.dateStart)
  /\ \E found \in findGoogleCalendarEvent(events, upd.key.name, upd.key.dateStart) :
       IF found.exists
       THEN LET i == CHOOSE j \in 1..Len(events) : events[j].id = found.eventId
            IN /\ events' = [events EXCEPT ![i] = PatchEvent(@, GCalUpdates(upd.updates))]
               /\ upd' = UpdLogged(UpdateFinishes(upd, GCalUpdated(found.eventId)),
                                   "gcal.update", TRUE, upd.key)
       ELSE /\ UNCHANGED events
            /\ upd' = UpdLogged(UpdateFinishes(upd, GCalUpdateNotFound),
                                "gcal.update", TRUE, upd.key)
  /\ UNCHANGED <<pages, auth, dirs, folderLog, addVars>>

\* Lines 48-53: updateGoogleCalendarEvent throws.
GCalUpdateThrows(err) ==
  /\ upd.pc = "gcalUpdate"
  /\ getAuthorizedClient(auth) = "client"
  /\ upd' = UpdLogged(UpdateFinishes(upd, GCalUpdateError(err)),
                      "gcal.update", FALSE, upd.key)
  /\ UNCHANGED <<pages, events, auth, dirs, folderLog, addVars>>

\* The client has read the response.
UpdateReturn ==
  /\ upd.pc = "done"
  /\ upd' = NoUpdateCall
  /\ UNCHANGED <<pages, events, auth, dirs, folderLog, addVars>>

NextUpdate ==
  \/ \E pageId \in UpdatePageIds, updates \in UpdateSet : UpdateScheduleCall(pageId, updates)
  \/ GetScheduleReturns
  \/ \E err \in NotionErrors \cup {NotionNotFoundMessage} : GetScheduleThrows(err)
  \/ UpdateScheduleRejects
  \/ UpdateScheduleReturns
  \/ \E err \in NotionErrors : UpdateScheduleThrows(err)
  \/ GCalUpdateUnauthorized
  \/ GCalUpdateAuthThrows
  \/ GCalUpdateReturns
  \/ \E err \in GCalErrors : GCalUpdateThrows(err)
  \/ UpdateReturn

SpecUpdate == InitUpdate /\ [][NextUpdate]_vars

\* ------------------------------------------------------ what a call has done

Done(c) == pc[c] = "done"

LogIndices(c, op) == {i \in 1..Len(log[c]) : log[c][i].op = op}

Issued(c, op) == LogIndices(c, op) # {}

Answered(c, op) == \E i \in LogIndices(c, op) : log[c][i].ok

Failed(c, op) == \E i \in LogIndices(c, op) : ~log[c][i].ok

\* The ids of the pages and of the events the call has created.
CreatedPages(c) == {log[c][i].id : i \in {j \in LogIndices(c, "notion.create") : log[c][j].ok}}

CreatedEvents(c) == {log[c][i].id : i \in {j \in LogIndices(c, "gcal.create") : log[c][j].ok}}

\* The backends as the call found them (calls are made one after another).
PrePages(c) == SelectSeq(pages, LAMBDA pg : pg.id \notin CreatedPages(c))

PreEvents(c) == SelectSeq(events, LAMBDA e : e.id \notin CreatedEvents(c))

Range(s) == {s[i] : i \in 1..Len(s)}

\* An event matches (name, dateStart): it lies in dateStart's one-day window
\* and its title equals name ignoring case.
EventMatches(e, name, dateStart) ==
  /\ ToLowerCase(e.summary) = ToLowerCase(name)
  /\ DateLT(e.start, nextDay(dateStart))
  /\ DateLT(dateStart, e.end)

\* Every request of the call was answered, by an authorized calendar client.
AllAnswered(c) == auth = "ok" /\ \A i \in 1..Len(log[c]) : log[c][i].ok

\* ------------------------------------------------------------------ claims
\* The database find's code is not part of the model's sources; the claims
\* below take its answer (notionDup) as given and state what the handler and
\* the calendar client make of it.

C2_FullyDuplicateWritesNothing ==
  \A c \in Clients :
    (Done(c) /\ notionDup[c].found /\ gcalDup[c].exists)
    => /\ ~Issued(c, "notion.create")
       /\ ~Issued(c, "gcal.create")
       /\ PrePages(c) = pages
       /\ PreEvents(c) = events
       /\ ~response[c].isError
       /\ response[c].notion.page_id = notionDup[c].page_id
       /\ response[c].notion.url = notionDup[c].url
       /\ \E pg \in Range(pages) : pg.id = response[c].notion.page_id
       /\ \E e \in Range(events) :
            /\ EventMatches(e, params[c].name, params[c].date_start)
            /\ response[c].google_calendar.eventId = e.id
            /\ response[c].google_calendar.eventUrl = e.htmlLink

\* C2's case: a call whose finds both matched has returned.
C2_Witness ==
  \E c \in Clients : Done(c) /\ notionDup[c].found /\ gcalDup[c].exists

\* The call is the add of an event that an earlier add created in both
\* backends: the database find returned the page of that name and start date,
\* the calendar holds the event of that name and start date, and the calendar
\* find was answered.
SecondAddOfCreatedEvent(c) ==
  /\ Done(c)
  /\ Answered(c, "notion.find")
  /\ Answered(c, "gcal.find")
  /\ notionDup[c].found
  /\ notionDup[c].name = params[c].name
  /\ notionDup[c].date_start = params[c].date_start
  /\ \E e \in Range(PreEvents(c)) :
       /\ e.summary = params[c].name
       /\ e.start = params[c].date_start

C4_DatabaseDuplicateCreatesEventOnly ==
  \A c \in Clients :
    (Done(c) /\ notionDup[c].found /\ ~gcalDup[c].exists)
    => /\ ~Issued(c, "notion.create")
       /\ PrePages(c) = pages
       /\ Cardinality(LogIndices(c, "gcal.create")) <= 1
       /\ auth = "ok" => Issued(c, "gcal.create")
       /\ ~response[c].isError
       /\ response[c].notion.skipped
       /\ response[c].notion.page_id = notionDup[c].page_id
       /\ response[c].notion.url = notionDup[c].url

\* C5: when the calendar find of an add call returns a match and the database
\* find none, the call issues one create to the database and no write to the
\* calendar, and once the page is created the calendar sub-result reports no
\* creation and carries the id and the url of the existing event.
C5_CalendarDuplicateCreatesPageOnly ==
  \A c \in Clients :
    (Done(c) /\ ~notionDup[c].found /\ gcalDup[c].exists)
    => /\ Cardinality(LogIndices(c, "notion.create")) = 1
       /\ ~Issued(c, "gcal.create")
       /\ PreEvents(c) = events
       /\ Answered(c, "notion.create")
          => /\ Len(pages) = Len(PrePages(c)) + 1
             /\ pages[Len(pages)].properties.Name = params[c].name
             /\ ~response[c].isError
             /\ response[c].notion.success
             /\ ~response[c].google_calendar.success
             /\ response[c].google_calendar.message # << >>
             /\ \E e \in Range(events) :
                  /\ EventMatches(e, params[c].name, params[c].date_start)
                  /\ response[c].google_calendar.eventId = e.id
                  /\ response[c].google_calendar.eventUrl = e.htmlLink
       /\ Failed(c, "notion.create")
          => (response[c].isError /\ PrePages(c) = pages)

\* C5's case: such a call has created its page and returned.
C5_Witness ==
  \E c \in Clients :
    /\ Done(c)
    /\ ~notionDup[c].found
    /\ gcalDup[c].exists
    /\ Answered(c, "notion.create")

\* C6: when in an add call the database create succeeds and the calendar
\* create throws, the response has notion.success true, google_calendar.success
\* false with the error's text in its message, and overall success true, and
\* the created page stays in the database.
C6_CalendarFailureIsPartialSuccess ==
  \A c \in Clients :
    (Done(c) /\ Answered(c, "notion.create") /\ Failed(c, "gcal.create"))
    => /\ \E pg \in Range(pages) : pg.id \in CreatedPages(c)
       /\ ~response[c].isError
       /\ response[c].success
       /\ response[c].notion.success
       /\ ~response[c].google_calendar.success
       /\ \E err \in GCalErrors : err \in Range(response[c].google_calendar.message)

\* C7: in an add call a failed database create does not keep the calendar
\* create from being attempted and reported, and a failed calendar create
\* does not keep the database outcome from being reported.
C7_WriteOutcomesAreIndependent ==
  \A c \in Clients :
    /\ (Done(c) /\ auth = "ok" /\ Failed(c, "notion.create") /\ ~gcalDup[c].exists)
       => /\ Issued(c, "gcal.create")
          /\ response[c].google_calendar.message # << >>
    /\ (Done(c) /\ Failed(c, "gcal.create"))
       => response[c].notion.keys # {}

\* C8, the case it names: when the database is skipped as already existing
\* and the only write the call attempts, the calendar create, fails, the
\* overall success flag of the response is not true.
C8_SuccessFlagFalseWhenEveryWriteFailed ==
  \A c \in Clients :
    ( /\ Done(c)
      /\ notionDup[c].found
      /\ ~Issued(c, "notion.create")
      /\ Failed(c, "gcal.create")
      /\ ~Answered(c, "gcal.create") )
    => ~(~response[c].isError /\ response[c].success)

C10_AtMostOneRecordPerEvent ==
  /\ \A i, j \in 1..Len(pages) :
       ( /\ pages[i].properties.Name = pages[j].properties.Name
         /\ pages[i].properties.Date.start = pages[j].properties.Date.start )
       => i = j
  /\ \A i, j \in 1..Len(events) :
       (events[i].summary = events[j].summary /\ events[i].start = events[j].start)
       => i = j

\* C11: an add call whose requests are all answered, for an event of which
\* the calendar already holds a record with that name and start date, leaves
\* exactly one such record in the calendar, and at most one page of that name
\* and start date in the database.
C11_RepeatedAddLeavesOneRecord ==
  \A c \in Clients :
    ( /\ Done(c)
      /\ AllAnswered(c)
      /\ \E e \in Range(PreEvents(c)) :
           e.summary = params[c].name /\ e.start = params[c].date_start )
    => /\ Cardinality({i \in 1..Len(events) :
                         /\ events[i].summary = params[c].name
                         /\ events[i].start = params[c].date_start}) = 1
       /\ Cardinality({i \in 1..Len(pages) :
                         /\ pages[i].properties.Name = params[c].name
                         /\ pages[i].properties.Date.start = params[c].date_start}) <= 1

\* C12: every add call with create_folder true that returns a result (not an
\* error) has run the folder step under the requested name and date_start,
\* whatever its duplicate classification, and a call with create_folder false
\* reports no folder.
C12_FolderStepRunsWheneverAsked ==
  \A c \in Clients :
    (Done(c) /\ ~response[c].isError)
    => /\ params[c].create_folder
          => /\ response[c].folder.path = FolderPath(params[c].name, params[c].date_start)
             /\ FolderPath(params[c].name, params[c].date_start) \in folders
       /\ ~params[c].create_folder => response[c].folder = NoFolder

\* C13: of the createEventFolder calls made with one name and one date, the
\* first on a path that does not exist creates it and returns existed =
\* false, every later one returns existed = true without error, and all
\* return the same path.
C13_CreateEventFolderIsIdempotent ==
  \A i \in 1..Len(folderLog) :
    folderLog[i].ok
    => /\ folderLog[i].existed = (folderLog[i].path \in folderLog[i].before)
       /\ folderLog[i].path \in folderLog[i].after
       /\ \A j \in (i + 1)..Len(folderLog) :
            (folderLog[j].name = folderLog[i].name /\ folderLog[j].date = folderLog[i].date
               /\ folderLog[j].via # "schema")
            => /\ folderLog[j].ok
               /\ folderLog[j].existed
               /\ folderLog[j].path = folderLog[i].path
               /\ folderLog[j].after = folderLog[j].before

\* C13's case: createEventFolder was called twice with the same arguments,
\* first on a path that did not exist.
C13_Witness ==
  \E i, j \in 1..Len(folderLog) :
    /\ i < j
    /\ folderLog[i].ok
    /\ ~folderLog[i].existed
    /\ folderLog[j].ok
    /\ folderLog[j].name = folderLog[i].name
    /\ folderLog[j].date = folderLog[i].date

\* Four digits, a dash, two digits, a dash, two digits, and nothing else.
FourTwoTwo(date) ==
  /\ Len(date) = 10
  /\ SubSeq(date, 1, 4) \in [1..4 -> Digits]
  /\ SubSeq(date, 5, 5) = <<"-">>
  /\ SubSeq(date, 6, 7) \in [1..2 -> Digits]
  /\ SubSeq(date, 8, 8) = <<"-">>
  /\ SubSeq(date, 9, 10) \in [1..2 -> Digits]

\* C14: a createEventFolder call with a date that is not four digits, dash,
\* two digits, dash, two digits fails with the validation error and creates
\* or changes no directory; through the create_event_folder tool such a date
\* does not get past the schema.
C14_BadDateCreatesNothing ==
  \A i \in 1..Len(folderLog) :
    ~FourTwoTwo(folderLog[i].date)
    => /\ ~folderLog[i].ok
       /\ folderLog[i].after = folderLog[i].before
       /\ folderLog[i].via # "tool"
       /\ folderLog[i].via = "service" => folderLog[i].error = DateFormatMessage

\* C14's case: createEventFolder was called with "2026-03-10T09" after a
\* folder had been created.
C14_Witness ==
  \E i \in 1..Len(folderLog) :
    /\ folderLog[i].via = "service"
    /\ Len(folderLog[i].date) = 13
    /\ folderLog[i].before # {}
    /\ ~folderLog[i].ok

\* The components of a path, its parts between the separators.
RECURSIVE Components(_)
Components(path) ==
  IF \A i \in 1..Len(path) : path[i] # "/" THEN <<path>>
  ELSE LET k == CHOOSE i \in 1..Len(path) :
                  path[i] = "/" /\ \A j \in 1..(i - 1) : path[j] # "/"
       IN <<SubSeq(path, 1, k - 1)>> \o Components(SubSeq(path, k + 1, Len(path)))

\* safe is name without the blanks around it and with "-" for every "/" and
\* every ":".
IsSanitized(safe, name) ==
  \E from \in 1..(Len(name) + 1) :
    /\ from + Len(safe) - 1 <= Len(name)
    /\ \A k \in 1..Len(safe) :
         safe[k] = (IF name[from + k - 1] \in {"/", ":"} THEN "-" ELSE name[from + k - 1])
    /\ \A k \in 1..Len(name) :
         (k < from \/ k >= from + Len(safe)) => name[k] = " "

\* C15: the path createEventFolder returns for a valid date is
\* {base}/{first four characters of date}/{date} {sanitizedName}: exactly two
\* components below the base, the second made of the date, a blank and the
\* name with its separators replaced.
C15_PathIsYearThenDateAndName ==
  \A i \in 1..Len(folderLog) :
    folderLog[i].ok
    => LET parts == Components(folderLog[i].path)
           date == folderLog[i].date
       IN /\ Len(parts) = 3
          /\ parts[1] = BasePath
          /\ parts[2] = SubSeq(date, 1, 4)
          /\ Len(parts[3]) >= Len(date) + 1
          /\ SubSeq(parts[3], 1, Len(date) + 1) = date \o <<" ">>
          /\ IsSanitized(SubSeq(parts[3], Len(date) + 2, Len(parts[3])), folderLog[i].name)

\* C15's case: a folder was created for the name "a/b".
C15_Witness ==
  \E i \in 1..Len(folderLog) :
    /\ folderLog[i].ok
    /\ \E k \in 1..Len(folderLog[i].name) : folderLog[i].name[k] = "/"

\* ------------------------------------------- what the update call has done

UpdLogIndices(op) == {i \in 1..Len(upd.log) : upd.log[i].op = op}

UpdIssued(op) == UpdLogIndices(op) # {}

UpdAnswered(op) == \E i \in UpdLogIndices(op) : upd.log[i].ok

UpdResolves == upd.page_id \in PageIds(upd.prePages)

\* The page the call names, as the database held it when the call began.
UpdPrePage == upd.prePages[PageIndex(upd.prePages, upd.page_id)]

\* The page the call names, as the database holds it now.
UpdPage == pages[PageIndex(pages, upd.page_id)]

\* C16: in an update call the record is read before the database is written,
\* and the calendar is looked up, after the write, under the name and the
\* start date the record had before the write, also when the update changes
\* them.
C16_CalendarLookedUpUnderOldIdentity ==
  /\ \A j \in UpdLogIndices("notion.update") :
       \E i \in UpdLogIndices("notion.get") : i < j /\ upd.log[i].ok
  /\ upd.pc = "gcalUpdate"
     => /\ UpdAnswered("notion.update")
        /\ upd.key.name = UpdPrePage.properties.Name
        /\ upd.key.dateStart = UpdPrePage.properties.Date.start
  /\ \A k \in UpdLogIndices("gcal.update") :
       /\ \E j \in UpdLogIndices("notion.update") : j < k /\ upd.log[j].ok
       /\ upd.log[k].key.name = UpdPrePage.properties.Name
       /\ upd.log[k].key.dateStart = UpdPrePage.properties.Date.start

\* C16's case: the update has changed the name and the start date of the
\* page, and the calendar has been asked.
C16_Witness ==
  /\ UpdAnswered("gcal.update")
  /\ UpdPage.properties.Name # UpdPrePage.properties.Name
  /\ UpdPage.properties.Date.start # UpdPrePage.properties.Date.start

\* The record the call read has no title or no Date.
OldIdentityUnrecoverable ==
  \/ UpdPrePage.properties.Name = << >>
  \/ UpdPrePage.properties.Date = NullDate

\* C17: when the name or the start date cannot be recovered from the record
\* read, an update that the database accepts is applied to the database, the
\* calendar is not asked, the google_calendar sub-result reports the step as
\* skipped, and the result is not an error.
C17_UnknownIdentitySkipsCalendar ==
  (upd.pc = "done" /\ UpdAnswered("notion.update") /\ OldIdentityUnrecoverable)
  => /\ ~upd.response.isError
     /\ upd.response.success
     /\ upd.response.google_calendar.skipped
     /\ ~upd.response.google_calendar.success
     /\ upd.response.google_calendar.message # << >>
     /\ ~UpdIssued("gcal.update")
     /\ events = upd.preEvents
     /\ Has(upd.updates, "place") => UpdPage.properties.Place = upd.updates["place"]
     /\ Truthy(upd.updates, "name") => UpdPage.properties.Name = upd.updates["name"]
     /\ Truthy(upd.updates, "date_start")
        => UpdPage.properties.Date.start = upd.updates["date_start"]
     /\ upd.response.notion.schedule.properties = UpdPage.properties

\* C17's case: the page without a Date has been given a new place.
C17_Witness ==
  /\ upd.pc = "done"
  /\ UpdAnswered("notion.update")
  /\ UpdPrePage.properties.Date = NullDate
  /\ UpdPage.properties.Place # UpdPrePage.properties.Place

\* C18: after an update the database applied, every field the request omits
\* has the value it had before, in the page and in the calendar event.
C18_OmittedFieldsKeepTheirValue ==
  (upd.pc = "done" /\ UpdAnswered("notion.update"))
  => /\ ~Has(upd.updates, "name")
        => UpdPage.properties.Name = UpdPrePage.properties.Name
     /\ ~Has(upd.updates, "date_start")
        => UpdPage.properties.Date.start = UpdPrePage.properties.Date.start
     /\ ~Has(upd.updates, "date_end")
        => UpdPage.properties.Date.end = UpdPrePage.properties.Date.end
     /\ ~Has(upd.updates, "place")
        => UpdPage.properties.Place = UpdPrePage.properties.Place
     /\ \A i \in 1..Len(events) :
          /\ ~Has(upd.updates, "name") => events[i].summary = upd.preEvents[i].summary
          /\ ~Has(upd.updates, "date_start") => events[i].start = upd.preEvents[i].start
          /\ ~Has(upd.updates, "place") => events[i].location = upd.preEvents[i].location

\* The days a stored date range spans, 0 without an end.
SpanDays(date) == IF date.end = NoDate THEN 0 ELSE DaysBetween(date.start, date.end)

\* C19: an update that changes date_start and supplies no date_end, applied
\* to a page whose stored range spans several days, leaves the page with a
\* range of the same number of days.
C19_NewStartKeepsSpan ==
  ( /\ upd.pc = "done"
    /\ UpdAnswered("notion.update")
    /\ Truthy(upd.updates, "date_start")
    /\ ~Has(upd.updates, "date_end")
    /\ SpanDays(UpdPrePage.properties.Date) > 0 )
  => SpanDays(UpdPage.properties.Date) = SpanDays(UpdPrePage.properties.Date)

\* The request supplies nothing to update: no name, no date_start, no place.
NoFieldSupplied ==
  /\ ~Truthy(upd.updates, "name")
  /\ ~Truthy(upd.updates, "date_start")
  /\ ~Has(upd.updates, "place")

\* C20: an update that supplies no updatable field ends with the validation
\* error, an update whose page id does not resolve ends with the not-found
\* error, and in both cases no write is issued to the database and none to
\* the calendar.
C20_RejectedUpdateWritesNothing ==
  /\ (upd.pc \in {"gcalUpdate", "done"} /\ NoFieldSupplied)
     => /\ upd.pc = "done"
        /\ upd.response.isError
        /\ UpdAnswered("notion.get")
           => \E m \in {NoUpdatableFieldMessage, DateEndWithoutStartMessage} :
                upd.response.message[2] = m
        /\ ~UpdIssued("notion.update")
        /\ ~UpdIssued("gcal.update")
        /\ pages = upd.prePages
        /\ events = upd.preEvents
  /\ (upd.pc \in {"updateSchedule", "gcalUpdate", "done"} /\ ~UpdResolves)
     => /\ upd.pc = "done"
        /\ upd.response.isError
        /\ upd.response.message[2] = NotionNotFoundMessage
        /\ ~UpdIssued("notion.update")
        /\ ~UpdIssued("gcal.update")
        /\ pages = upd.prePages
        /\ events = upd.preEvents

\* C20's case: an update without any field was read by the database and
\* rejected, after an earlier update had been applied.
C20_Witness ==
  /\ upd.pc = "done"
  /\ upd.updates = NoUpdates
  /\ UpdAnswered("notion.get")
  /\ upd.response.isError
  /\ pages # UpdatePages

\* The last day of month m of year y, by the calendar's rule.
LastDayOfMonth(y, m) ==
  CASE m \in {1, 3, 5, 7, 8, 10, 12} -> 31
    [] m \in {4, 6, 9, 11} -> 30
    [] OTHER -> IF y % 400 = 0 \/ (y % 4 = 0 /\ y % 100 # 0) THEN 29 ELSE 28

\* b is the calendar day after a.
IsDayAfter(b, a) ==
  \/ b = <<a[1], a[2], a[3] + 1>> /\ a[3] < LastDayOfMonth(a[1], a[2])
  \/ b = <<a[1], a[2] + 1, 1>> /\ a[3] = LastDayOfMonth(a[1], a[2]) /\ a[2] < 12
  \/ b = <<a[1] + 1, 1, 1>> /\ a[3] = 31 /\ a[2] = 12

\* C21: the all-day event an add call created in the calendar starts on
\* date_start and ends on the calendar day after date_end, or after
\* date_start when the call has no date_end, also over the end of a month,
\* of a year, and around a leap day.
C21_StoredEndIsExclusive ==
  \A c \in Clients :
    (Done(c) /\ Answered(c, "gcal.create"))
    => \A i \in 1..Len(events) :
         events[i].id \in CreatedEvents(c)
         => /\ events[i].start = params[c].date_start
            /\ IsDayAfter(events[i].end,
                          IF params[c].date_end # NoDate THEN params[c].date_end
                          ELSE params[c].date_start)

\* C21's case: the events 2026-03-10 .. 2026-03-12, stored with end
\* 2026-03-13, and 2026-12-30 .. 2026-12-31, stored with end 2027-01-01,
\* have been created.
C21_Witness ==
  /\ \E i \in 1..Len(events) :
       events[i].start = <<2026, 3, 10>> /\ events[i].end = <<2026, 3, 13>>
  /\ \E i \in 1..Len(events) :
       events[i].start = <<2026, 12, 30>> /\ events[i].end = <<2027, 1, 1>>

\* C22: with the calendar integration absent or misconfigured (no credentials
\* file, an invalid one, or no stored token) and the database answering, an
\* add call still writes the page it has to write and returns a result that
\* is not an error, whose calendar sub-result reports the failure.
C22_AddWithoutCalendarIntegration ==
  \A c \in Clients :
    ( /\ Done(c)
      /\ auth # "ok"
      /\ ~Failed(c, "notion.find")
      /\ ~Failed(c, "notion.create") )
    => /\ ~notionDup[c].found
          => /\ Answered(c, "notion.create")
             /\ \E pg \in Range(pages) : pg.id \in CreatedPages(c)
       /\ ~response[c].isError
       /\ ~response[c].google_calendar.success
       /\ response[c].google_calendar.message # << >>

\* The database find of the call has been issued and has not settled.
NotionFindPending(c) == pc[c] = "notionFind"

\* The calendar find of the call has been issued and has not settled.
GCalFindPending(c) == pc[c] = "gcalFind"

\* C23: within one add call the two finds are issued together: while the
\* database find is pending the calendar find has been issued too, it does
\* not wait for the database find's result.
C23_FindsIssuedConcurrently ==
  \A c \in Clients : NotionFindPending(c) => GCalFindPending(c)

\* C24: add calls of different clients are not serialized: a client's call
\* starts while another's is under way, and a call that found no page, or no
\* event, creates it whatever the backend has come to hold since its find.
C24_AddCallsAreNotSerialized ==
  \A c \in Clients :
    /\ (pc[c] = "idle" /\ ncalls < MaxCalls)
       => \A p \in ConcurrentAddParams : ENABLED AddScheduleCallConcurrent(c, p)
    /\ pc[c] = "notionCreate" => ENABLED NotionCreateReturns(c)
    /\ (pc[c] = "gcalCreate" /\ auth = "ok") => ENABLED GCalCreateReturns(c)

\* C24's case: two calls for the same name and start date have both ended
\* their finds without a match before either created, both have created,
\* and each backend holds two records of that one event.
C24_Witness ==
  /\ \A c \in Clients :
       /\ Done(c)
       /\ params[c].name = <<"a">>
       /\ params[c].date_start = <<2026, 3, 10>>
       /\ ~notionDup[c].found
       /\ ~gcalDup[c].exists
       /\ Answered(c, "gcal.find")
       /\ Answered(c, "notion.create")
       /\ Answered(c, "gcal.create")
  /\ Len(pages) = 2
  /\ pages[1].properties = pages[2].properties
  /\ Len(events) = 2
  /\ events[1].summary = events[2].summary
  /\ events[1].start = events[2].start

\* The events of the calendar, as the call's find met it, that lie in the
\* one-day window of date_start and are titled name ignoring case.
ExactMatches(c) ==
  SelectSeq(PreEvents(c),
    LAMBDA e : EventMatches(e, params[c].name, params[c].date_start))

\* C25: an answered calendar find reports a match if and only if some event
\* in the one-day window of the start date is titled name ignoring case, and
\* the match it returns is the first such event.
C25_FindMatchesExactTitleOnly ==
  \A c \in Clients :
    Answered(c, "gcal.find")
    => /\ gcalDup[c].exists <=> ExactMatches(c) # << >>
       /\ gcalDup[c].exists => gcalDup[c].eventId = ExactMatches(c)[1].id

\* C26: an add call whose date_start carries a time component, made with an
\* authorized calendar client for an event the calendar does not hold yet,
\* stores a timed event: the calendar gets an event of the call that starts
\* at that time.
C26_TimedStartStoredAsTimedEvent ==
  \A c \in Clients :
    ( /\ Done(c)
      /\ auth = "ok"
      /\ ~IsYmd(params[c].date_start)
      /\ Issued(c, "gcal.create") )
    => \E i \in 1..Len(events) :
         /\ events[i].id \in CreatedEvents(c)
         /\ events[i].start = params[c].date_start

\* C27: an add call that ends with an error result ("Failed to add
\* schedule: ...") created no page in the database and no event in the
\* calendar.
C27_ErrorResultMeansNothingCreated ==
  \A c \in Clients :
    (Done(c) /\ response[c].isError)
    => /\ CreatedPages(c) = {}
       /\ CreatedEvents(c) = {}

\* The pages and the events recorded under (name, dateStart).
PagesOf(ps, name, dateStart) ==
  {i \in 1..Len(ps) : /\ ps[i].properties.Name = name
                      /\ ps[i].properties.Date.start = dateStart}

EventsOf(es, name, dateStart) ==
  {i \in 1..Len(es) : es[i].summary = name /\ es[i].start = dateStart}

\* Both backends are reachable during the call: the calendar client is
\* authorized and a request fails only where a reachable backend refuses it,
\* which is a calendar request built from a date_start that is not yyyy-mm-dd.
BackendsReachable(c) ==
  /\ auth = "ok"
  /\ \A i \in 1..Len(log[c]) :
       ~log[c][i].ok => /\ log[c][i].op \in {"gcal.find", "gcal.create"}
                        /\ ~IsYmd(params[c].date_start)

\* The call found the state an earlier add(E) leaves when it created the page
\* and failed to create the event: one page of E, no event of E.
HalfAdded(c) ==
  /\ Cardinality(PagesOf(PrePages(c), params[c].name, params[c].date_start)) = 1
  /\ EventsOf(PreEvents(c), params[c].name, params[c].date_start) = {}
  /\ notionDup[c].found

\* C28: an add(E) call made with both backends reachable, after an add(E)
\* that created the page and failed to create the event, creates no page and
\* exactly one event, and then each backend holds exactly one record of E.
C28_LaterAddCreatesMissingEvent ==
  \A c \in Clients :
    (Done(c) /\ BackendsReachable(c) /\ HalfAdded(c))
    => /\ CreatedPages(c) = {}
       /\ Cardinality(CreatedEvents(c)) = 1
       /\ Cardinality(PagesOf(pages, params[c].name, params[c].date_start)) = 1
       /\ Cardinality(EventsOf(events, params[c].name, params[c].date_start)) = 1

\* The calendar events an update call's lookup key locates.
Located(key) ==
  {i \in 1..Len(events) : EventMatches(events[i], key.name, key.dateStart)}

\* C29: page 1 and event 1 record one event. Every update of page 1 that
\* reaches the calendar step with an authorized client, calendar calls of
\* earlier updates having answered or failed, looks the calendar up under a
\* name and a start date that locate event 1.
C29_CalendarRecordStaysLocatable ==
  (upd.pc = "gcalUpdate" /\ upd.page_id = 1 /\ auth = "ok")
  => \E i \in Located(upd.key) : events[i].id = 1

UpdFailed(op) == \E i \in UpdLogIndices(op) : ~upd.log[i].ok

\* C30: an update call reaches the calendar step, and sends the calendar a
\* request, only after its own database write has been answered; a call whose
\* read of the record or whose database write fails ends with an error
\* result, has sent the calendar nothing and leaves the calendar as it was.
C30_CalendarPatchedOnlyAfterDatabaseWrite ==
  /\ ( \/ upd.pc = "gcalUpdate"
       \/ UpdIssued("gcal.update")
       \/ (upd.pc # "idle" /\ events # upd.preEvents) )
     => /\ UpdAnswered("notion.get")
        /\ UpdAnswered("notion.update")
        /\ ~UpdFailed("notion.get")
        /\ ~UpdFailed("notion.update")
  /\ (UpdFailed("notion.get") \/ UpdFailed("notion.update"))
     => /\ upd.pc = "done"
        /\ upd.response.isError
        /\ ~UpdIssued("gcal.update")
        /\ events = upd.preEvents
  /\ (upd.pc = "done" /\ upd.response.isError)
     => /\ ~UpdIssued("gcal.update")
        /\ events = upd.preEvents

\* C30's case: after an update that patched the calendar, the database write
\* of a second update of a page with a known name and date has failed.
C30_Witness ==
  /\ upd.pc = "done"
  /\ UpdFailed("notion.update")
  /\ OldIdentityKnown(OldIdentity(upd.current))
  /\ events # UpdateEvents

====
